---- MODULE Spec2Model ----
(***************************************************************************)
(* Model of import_scvi_materials.py: the resource resolver                *)
(* (ResourceResolver) and the property-file parser/merger (PropertyFile),  *)
(* driven by the per-material loop of setup_materials.                     *)
(*                                                                         *)
(* Strings are sequences of atoms.  An atom is a TLA+ string standing for  *)
(* one character ("_", "/", ".", "'", a digit, a letter) or for a          *)
(* non-empty run of letters that no operation of the program cuts          *)
(* ("Material", "tga", "Foo").                                             *)
(***************************************************************************)
EXTENDS Integers, Sequences, FiniteSets, TLC

VARIABLES disk, properties, stack, status, error, eye_data, builds, last, resolved,
          log, call

vars == <<disk, properties, stack, status, error, eye_data, builds, last, resolved,
          log, call>>

(***************************************************************************)
(* Python values                                                           *)
(***************************************************************************)
None == [tag |-> "None"]

Str(s) == [tag |-> "str", s |-> s]

\* the text of a JSON document, given by its top-level items in document order
Text(items) == [tag |-> "text", items |-> items]

(***************************************************************************)
(* String operations                                                       *)
(***************************************************************************)
Digits == {"0", "1", "2", "3", "4", "5", "6", "7", "8", "9"}

LetterAtoms == {"M", "R", "a", "b", "x", "tex", "Foo", "Bar", "Baz", "Eye"}

DigitVal(c) == CASE c = "0" -> 0 [] c = "1" -> 1 [] c = "2" -> 2 [] c = "3" -> 3
                 [] c = "4" -> 4 [] c = "5" -> 5 [] c = "6" -> 6 [] c = "7" -> 7
                 [] c = "8" -> 8 [] c = "9" -> 9

DigitChar(d) == CASE d = 0 -> "0" [] d = 1 -> "1" [] d = 2 -> "2" [] d = 3 -> "3"
                  [] d = 4 -> "4" [] d = 5 -> "5" [] d = 6 -> "6" [] d = 7 -> "7"
                  [] d = 8 -> "8" [] d = 9 -> "9"

Contains(s, c) == \E i \in 1..Len(s) : s[i] = c

StartsWith(s, p) == Len(p) <= Len(s) /\ SubSeq(s, 1, Len(p)) = p

EndsWith(s, p) == Len(p) <= Len(s) /\ SubSeq(s, Len(s) - Len(p) + 1, Len(s)) = p

\* str.split(sep) for a one-atom separator: n separators give n+1 parts
RECURSIVE Split(_, _)
Split(s, sep) ==
    IF ~Contains(s, sep) THEN <<s>>
    ELSE LET i == CHOOSE k \in 1..Len(s) : s[k] = sep /\ \A j \in 1..(k-1) : s[j] # sep
         IN  <<SubSeq(s, 1, i - 1)>> \o Split(SubSeq(s, i + 1, Len(s)), sep)

\* int(str) of a non-empty run of decimal digits
RECURSIVE int(_)
int(s) == IF Len(s) = 0 THEN 0
          ELSE 10 * int(SubSeq(s, 1, Len(s) - 1)) + DigitVal(s[Len(s)])

\* str(n) for n >= 0
RECURSIVE str(_)
str(n) == IF n < 10 THEN <<DigitChar(n)>> ELSE str(n \div 10) \o <<DigitChar(n % 10)>>

\* "{:0>w}".format(n): str(n) padded on the left with "0" to at least w characters
RECURSIVE PadLeft(_, _)
PadLeft(s, w) == IF Len(s) >= w THEN s ELSE PadLeft(<<"0">> \o s, w)

\* the number written without padding
Format0_NoPad(n, w) == str(n)

Format0(n, w) == PadLeft(str(n), w)

(***************************************************************************)
(* pathlib.Path: a path is a sequence of components, each a string         *)
(***************************************************************************)
RootDir == <<"/">>

basePath == << <<"UmodelExport">> >>

\* the components of one constructor argument: split on "/", empty and "." parts dropped
PathParts(s) == SelectSeq(Split(s, "/"), LAMBDA c : c # <<>> /\ c # <<".">>)

IsAbsolute(s) == Len(s) > 0 /\ s[1] = "/"

\* Path(a, s): an absolute argument discards everything before it
PathJoin(p, s) == IF IsAbsolute(s) THEN <<RootDir>> \o PathParts(s) ELSE p \o PathParts(s)

PathName(p) == IF p = <<>> \/ p = <<RootDir>> THEN <<>> ELSE p[Len(p)]

\* str.rfind("."), 1-based, 0 when absent
RFindDot(n) == IF Contains(n, ".")
               THEN CHOOSE i \in 1..Len(n) : n[i] = "." /\ \A j \in (i+1)..Len(n) : n[j] # "."
               ELSE 0

\* the extension of a name whose last "." is at i: none when the dot is
\* absent, leads the name or ends it
SuffixAt(n, i) == IF i > 1 /\ i < Len(n) THEN SubSeq(n, i, Len(n)) ELSE <<>>

StemAt(n, i) == IF i > 1 /\ i < Len(n) THEN SubSeq(n, 1, i - 1) ELSE n

PathSuffix(p) == SuffixAt(PathName(p), RFindDot(PathName(p)))

PathStem(p) == StemAt(PathName(p), RFindDot(PathName(p)))

\* the suffix added after the whole name, the old extension kept
WithSuffix_Append(p, suffix) == SubSeq(p, 1, Len(p) - 1) \o <<PathName(p) \o suffix>>

\* Path.with_suffix(suffix), for a path with a non-empty name
WithSuffix(p, suffix) ==
    SubSeq(p, 1, Len(p) - 1)
    \o <<SubSeq(PathName(p), 1, Len(PathName(p)) - Len(PathSuffix(p))) \o suffix>>

TGA == <<".", "tga">>

PROPS_JSON == <<".", "props", ".", "json">>

(***************************************************************************)
(* Module constants                                                        *)
(***************************************************************************)
CHARA_DLC_MAP == (60 :> 1) @@ (30 :> 4) @@ (17 :> 6) @@ (28 :> 7) @@ (61 :> 9)
                 @@ (22 :> 11) @@ (9 :> 13)

ResourceType == {"UNKNOWN", "INT", "FLOAT", "BOOL", "ARRAY", "CHARA_MAT",
                 "TEXTURE_2D", "VECTOR_4"}

\* the table without its second row
fromString_NoMaterial3(string) ==
    IF string = <<"MaterialInstanceConstant">> THEN "CHARA_MAT"
    ELSE IF string = <<"Texture2D">> THEN "TEXTURE_2D"
    ELSE "UNKNOWN"

\* lines 55-63
fromString(string) ==
    IF string = <<"MaterialInstanceConstant">> THEN "CHARA_MAT"
    ELSE IF string = <<"Material3">> THEN "CHARA_MAT"
    ELSE IF string = <<"Texture2D">> THEN "TEXTURE_2D"
    ELSE "UNKNOWN"

IsLetter(c) == c \in LetterAtoms

IsDigit(c) == c \in Digits

IsAlnum(c) == IsLetter(c) \/ IsDigit(c)

\* CHARA_MAT_RE.match(name): '[a-zA-Z]+_R0?([0-9]+)_[a-zA-Z0-9]+' anchored at
\* the start of name.  A match is <<a, z, d>>: a letters, "_R", z optional
\* zeros (0 or 1), d captured digits, "_", then at least one alphanumeric.
ReMatches(name) ==
    { m \in (1..Len(name)) \X {0, 1} \X (1..Len(name)) :
        LET a == m[1]
            z == m[2]
            d == m[3]
        IN  /\ a + 2 + z + d + 2 <= Len(name)
            /\ \A i \in 1..a : IsLetter(name[i])
            /\ name[a + 1] = "_"
            /\ name[a + 2] = "R"
            /\ z = 1 => name[a + 3] = "0"
            /\ \A i \in (a + 2 + z + 1)..(a + 2 + z + d) : IsDigit(name[i])
            /\ name[a + 2 + z + d + 1] = "_"
            /\ IsAlnum(name[a + 2 + z + d + 2]) }

\* the match object: group 1 is the captured run of digits
MatchObject(name, m) ==
    [tag |-> "Match",
     group1 |-> SubSeq(name, m[1] + 2 + m[2] + 1, m[1] + 2 + m[2] + m[3])]

\* the match the greedy quantifiers prefer, in the order they occur
BestMatch(name, ms) ==
    IF ms = {} THEN None
    ELSE MatchObject(name, CHOOSE x \in ms : \A y \in ms :
                              \/ x[1] > y[1]
                              \/ x[1] = y[1] /\ x[2] > y[2]
                              \/ x[1] = y[1] /\ x[2] = y[2] /\ x[3] >= y[3])

ReMatch(name) == BestMatch(name, ReMatches(name))

(***************************************************************************)
(* ResourceResolver                                                        *)
(***************************************************************************)
\* Path.exists(): a file of the disk, a directory above one, or the root
exists(path) ==
    \/ path = <<RootDir>>
    \/ \E f \in DOMAIN disk : Len(path) <= Len(f) /\ SubSeq(f, 1, Len(path)) = path

ResPath(p) == [tag |-> "Path", parts |-> p]

Raise(e) == [tag |-> "raise", exc |-> e]

COMMON_ROOT == << <<"Common">>, <<"BasicResource">> >>

CMN_MATERIAL_ROOT == << <<"Chara">>, <<"CMN">>, <<"Material">> >>

CMN_TEXTURE_ROOT == << <<"Chara">>, <<"CMN">>, <<"Texture">> >>

DlcRoot(dlcNo, characterId) ==
    << <<"DLC">>, Format0(dlcNo, 2), <<"Chara">>, Format0(characterId, 3), <<"Material">> >>

PlainRoot(characterId) == << <<"Chara">>, Format0(characterId, 3), <<"Material">> >>

\* lines 102-107: the root of a character number
CharaRoot(characterId) ==
    IF characterId \in DOMAIN CHARA_DLC_MAP
    THEN <<DlcRoot(CHARA_DLC_MAP[characterId], characterId)>>
    ELSE <<PlainRoot(characterId)>>

\* lines 99-107: the roots appended for the outcome m of the match
MatchRoots(m) == IF m # None THEN CharaRoot(int(m.group1)) ELSE <<>>

\* a DLC character also gets its plain per-character root, after the DLC root
CharaRoots_DlcThenPlain(name) ==
    LET m == ReMatch(name)
    IN  IF m # None
        THEN LET characterId == int(m.group1)
             IN  IF characterId \in DOMAIN CHARA_DLC_MAP
                 THEN <<DlcRoot(CHARA_DLC_MAP[characterId], characterId), PlainRoot(characterId)>>
                 ELSE <<PlainRoot(characterId)>>
        ELSE <<>>

\* lines 98-107: the character-specific roots appended for a bare material name
CharaRoots(name) == MatchRoots(ReMatch(name))

\* lines 91-96, 115: the list `paths` of a bare name
SearchRoots(resType, name) ==
    <<COMMON_ROOT>> \o
    (IF resType = "CHARA_MAT" THEN <<CMN_MATERIAL_ROOT>> \o CharaRoots(name)
     ELSE IF resType = "TEXTURE_2D" THEN <<CMN_TEXTURE_ROOT>>
     ELSE <<>>)

\* the candidate under the first of the roots numbered in hits
FirstHit(roots, fileName, hits) ==
    IF hits = {} THEN None
    ELSE ResPath(basePath \o roots[CHOOSE k \in hits : \A j \in hits : k <= j] \o <<fileName>>)

\* the loop keeps going after a hit: the last candidate that exists
LastExisting(roots, fileName) ==
    LET hits == { i \in 1..Len(roots) : exists(basePath \o roots[i] \o <<fileName>>) }
    IN  IF hits = {} THEN None
        ELSE ResPath(basePath \o roots[CHOOSE k \in hits : \A j \in hits : k >= j] \o <<fileName>>)

\* lines 109-112, 116-119: the first candidate that exists, else None
FirstExisting(roots, fileName) ==
    FirstHit(roots, fileName,
             { i \in 1..Len(roots) : exists(basePath \o roots[i] \o <<fileName>>) })

DropFirst(s) == IF s = <<>> THEN <<>> ELSE Tail(s)

\* lines 88-89, 122
ExistingOrNone(path) == IF exists(path) THEN ResPath(path) ELSE None

\* lines 80-89: the path of a name containing "/"
ResolvePath(resType, path) ==
    IF PathStem(path) = DropFirst(PathSuffix(path)) /\ resType \in {"TEXTURE_2D", "CHARA_MAT"}
    THEN IF PathName(path) = <<>> THEN Raise("ValueError")
         ELSE ExistingOrNone(WithSuffix(path, IF resType = "TEXTURE_2D" THEN TGA
                                              ELSE PROPS_JSON))
    ELSE ExistingOrNone(path)

\* lines 77-89: a name containing "/"
ResolveQualified(resType, name) == ResolvePath(resType, PathJoin(basePath, name))

\* the resolver with its last branch taken for every remaining kind
resolveResourcePath_AnyKind(resType, name) ==
    IF Contains(name, "/") THEN ResolveQualified(resType, name)
    ELSE IF resType = "CHARA_MAT" THEN FirstExisting(SearchRoots(resType, name), name \o PROPS_JSON)
    ELSE FirstExisting(SearchRoots("TEXTURE_2D", name), name \o TGA)

\* lines 75-122: resolveResourcePath
resolveResourcePath(resType, name) ==
    IF Contains(name, "/") THEN ResolveQualified(resType, name)
    ELSE IF resType = "CHARA_MAT" THEN FirstExisting(SearchRoots(resType, name), name \o PROPS_JSON)
    ELSE IF resType = "TEXTURE_2D" THEN FirstExisting(SearchRoots(resType, name), name \o TGA)
    ELSE None

\* lines 127-131: the text at the path, None when there is no path
ReadPath(path) ==
    IF path.tag # "Path" THEN path
    ELSE IF path.parts \in DOMAIN disk THEN disk[path.parts]
    ELSE Raise("IsADirectoryError")

\* lines 124-131: the text of the file, None when the resource is not found
readResource(resType, name) == ReadPath(resolveResourcePath(resType, name))

(***************************************************************************)
(* Property and PropertyFile                                               *)
(***************************************************************************)
Property(value, propertyType) ==
    [tag |-> "Property", propertyType |-> propertyType, value |-> value]

\* d[k] = v on a dict
DictSet(d, k, v) == [x \in DOMAIN d \cup {k} |-> IF x = k THEN v ELSE d[x]]

\* a float, written mant / 10^exp with no trailing zero in the fraction
RECURSIVE Normalised(_, _)
Normalised(mant, exp) ==
    IF exp > 0 /\ mant % 10 = 0 THEN Normalised(mant \div 10, exp - 1)
    ELSE [tag |-> "float", mant |-> mant, exp |-> exp]

\* the float written whole "." frac, or whole alone when frac is empty
FloatOf(whole, frac, n) ==
    IF /\ n <= 2
       /\ Len(whole) + Len(frac) > 0
       /\ \A i \in 1..Len(whole) : IsDigit(whole[i])
       /\ \A i \in 1..Len(frac) : IsDigit(frac[i])
    THEN Normalised(int(whole \o frac), Len(frac))
    ELSE Raise("ValueError")

FloatOfParts(parts) ==
    FloatOf(parts[1], IF Len(parts) = 2 THEN parts[2] ELSE <<>>, Len(parts))

\* float(x) for a number, or for the text of a decimal number: digits,
\* optionally "." and digits; the text is split once
float(x) ==
    IF x.tag = "float" THEN x
    ELSE IF x.tag # "str" THEN Raise("TypeError")
    ELSE CHOOSE f \in { FloatOfParts(parts) : parts \in {Split(x.s, ".")} } : TRUE

\* lines 216-217: the unpacking of the three parts
QuotedProperty(parts) ==
    IF Len(parts) # 3 THEN Raise("ValueError")
    ELSE Property(Str(parts[2]), fromString(parts[1]))

\* lines 214-219
parseProperty(value, typeHint) ==
    IF value.tag = "str" /\ EndsWith(value.s, <<"'">>)
    THEN QuotedProperty(Split(value.s, "'"))
    ELSE Property(value, typeHint)

\* Property(f, ResourceType.FLOAT), unless float() raised
FloatProperty(f) == IF f.tag = "raise" THEN f ELSE Property(f, "FLOAT")

\* Property([R, G, B, A], ResourceType.VECTOR_4), unless a float() raised
VectorOf(comps) ==
    IF \E i \in 1..4 : comps[i].tag = "raise"
    THEN comps[CHOOSE i \in 1..4 : comps[i].tag = "raise"
                                   /\ \A j \in 1..(i - 1) : comps[j].tag # "raise"]
    ELSE Property([tag |-> "list", items |-> comps], "VECTOR_4")

\* lines 186-190: the four components of a Vector parameter
VectorProperty(v) == VectorOf(<<float(v.R), float(v.G), float(v.B), float(v.A)>>)

\* lines 174, 180, 186: the property made of the value of one record
ParamProperty(typeName, value) ==
    IF typeName = <<"Scalar">> THEN FloatProperty(float(value))
    ELSE IF typeName = <<"Texture">> THEN parseProperty(value, "UNKNOWN")
    ELSE VectorProperty(value)

\* lines 169-192: the loop over the records of one value group, from record
\* i; AddParam stores the property v made of record i
RECURSIVE AddParams(_, _, _, _)
AddParam(typeName, params, i, props, v) ==
    IF v.tag = "raise" THEN [properties |-> props, exc |-> v]
    ELSE AddParams(typeName, params, i + 1, DictSet(props, params[i].ParameterName, v))

AddParams(typeName, params, i, props) ==
    IF i > Len(params) THEN [properties |-> props, exc |-> None]
    ELSE CHOOSE r \in { AddParam(typeName, params, i, props, v) :
                           v \in {ParamProperty(typeName, params[i].ParameterValue)} } : TRUE

\* add_properties without the test of lines 167-168
add_properties_NoSentinel(typeName, propValue, props) ==
    IF typeName \in {<<"Scalar">>, <<"Texture">>, <<"Vector">>}
    THEN IF propValue.tag = "list" THEN AddParams(typeName, propValue.items, 1, props)
         ELSE [properties |-> props, exc |-> Raise("TypeError")]
    ELSE [properties |-> props, exc |-> None]

\* lines 165-192
add_properties(typeName, propValue, props) ==
    IF propValue.tag = "str" /\ propValue.s = <<"{}">>
    THEN [properties |-> props, exc |-> None]
    ELSE IF typeName \in {<<"Scalar">>, <<"Texture">>, <<"Vector">>}
    THEN IF propValue.tag = "list" THEN AddParams(typeName, propValue.items, 1, props)
         ELSE [properties |-> props, exc |-> Raise("TypeError")]
    ELSE [properties |-> props, exc |-> None]

\* lines 163-205: the loop over the items of the document, from item i
RECURSIVE ParseItems(_, _, _, _)
\* line 194: the parent reference p is stored
ParentItem(items, i, props, parent, p) ==
    IF p.tag = "raise" THEN [properties |-> props, parent |-> parent, exc |-> p]
    ELSE ParseItems(items, i + 1, props, p)

\* line 197: add_properties has returned r
GroupDone(items, i, parent, r) ==
    IF r.exc # None THEN [properties |-> r.properties, parent |-> parent, exc |-> r.exc]
    ELSE ParseItems(items, i + 1, r.properties, parent)

\* lines 196-197: the key split on "ParameterValues"
GroupItem(items, i, props, parent, parts) ==
    IF Len(parts) # 2
    THEN [properties |-> props, parent |-> parent, exc |-> Raise("ValueError")]
    ELSE GroupDone(items, i, parent, add_properties(parts[1], items[i].value, props))

ParseItems(items, i, props, parent) ==
    IF i > Len(items) THEN [properties |-> props, parent |-> parent, exc |-> None]
    ELSE IF items[i].key = <<"Parent">>
    THEN ParentItem(items, i, props, parent, parseProperty(items[i].value, "UNKNOWN"))
    ELSE IF Contains(items[i].key, "ParameterValues")
    THEN GroupItem(items, i, props, parent, Split(items[i].key, "ParameterValues"))
    ELSE IF StartsWith(items[i].key, <<"Collected">>) /\ EndsWith(items[i].key, <<"Parameters">>)
    THEN ParseItems(items, i + 1, props, parent)
    ELSE ParseItems(items, i + 1, props, parent)

\* json.loads(contents): the items of the document, in document order
json_loads(contents) ==
    IF contents.tag = "text" THEN [tag |-> "dict", items |-> contents.items]
    ELSE IF contents.tag = "str" THEN Raise("ValueError")
    ELSE Raise("TypeError")

\* lines 163-205, for the outcome of json.loads
ParseData(data, props, parent) ==
    IF data.tag = "raise" THEN [properties |-> props, parent |-> parent, exc |-> data]
    ELSE ParseItems(data.items, 1, props, parent)

\* lines 159-205: parse() of a file with the given contents, writing into
\* the dict `props` its self.properties names
parse(contents, props, parent) == ParseData(json_loads(contents), props, parent)

\* lines 230-235: the copy loop of mergeWithParents
MergeProperties(selfProps, parentProps) ==
    [n \in DOMAIN selfProps \cup DOMAIN parentProps |->
        IF n \in DOMAIN selfProps THEN selfProps[n] ELSE parentProps[n]]

(***************************************************************************)
(* Resolver requests: the names asked for and the files that may exist     *)
(***************************************************************************)
MaxFiles == 2

NameR017 == <<"M", "_", "R", "0", "1", "7", "_", "a">>

NameR9 == <<"M", "_", "R", "9", "_", "a">>

NameR002 == <<"M", "_", "R", "0", "0", "2", "_", "a">>

NameNoTail == <<"M", "_", "R", "1", "7">>

NameFoo == <<"Foo">>

NameTex == <<"tex">>

QualTex == <<"a", "/", "b", "/", "tex">>

QualTexTex == <<"a", "/", "b", "/", "tex", ".", "tex">>

QualFooFoo == <<"a", "/", "Foo", ".", "Foo">>

AbsTexTex == <<"/", "a", "/", "tex", ".", "tex">>

Slash == <<"/">>

BareNames == {NameR017, NameR9, NameR002, NameNoTail, NameFoo, NameTex}

QualifiedNames == {QualTex, QualTexTex, QualFooFoo, AbsTexTex, Slash}

QueryNames == BareNames \cup QualifiedNames

FileAt(root, fileName) == basePath \o root \o <<fileName>>

\* every file a request can probe, and the files next to them it does not probe
CandidateFiles ==
    { FileAt(r, n \o PROPS_JSON) :
        r \in {COMMON_ROOT, CMN_MATERIAL_ROOT, DlcRoot(6, 17), PlainRoot(17)}, n \in {NameR017} }
    \cup { FileAt(r, n \o PROPS_JSON) :
        r \in {CMN_MATERIAL_ROOT, DlcRoot(13, 9), PlainRoot(9)}, n \in {NameR9} }
    \cup { FileAt(r, n \o PROPS_JSON) :
        r \in {COMMON_ROOT, CMN_MATERIAL_ROOT, PlainRoot(2)}, n \in {NameR002} }
    \cup { FileAt(r, n \o PROPS_JSON) :
        r \in {CMN_MATERIAL_ROOT, PlainRoot(17)}, n \in {NameNoTail, NameFoo} }
    \cup { FileAt(COMMON_ROOT, NameTex \o TGA), FileAt(CMN_TEXTURE_ROOT, NameTex \o TGA),
           FileAt(CMN_TEXTURE_ROOT, NameTex \o PROPS_JSON),
           FileAt(CMN_TEXTURE_ROOT, NameFoo \o TGA) }
    \cup { basePath \o << <<"a">>, <<"b">>, f >> :
             f \in { <<"tex">>, <<"tex">> \o TGA, <<"tex", ".", "tex">>,
                     <<"tex", ".", "tex">> \o TGA } }
    \cup { basePath \o << <<"a">>, <<"Foo">> \o PROPS_JSON >>,
           basePath \o << <<"a">>, <<"tex">> \o TGA >>,
           << RootDir, <<"a">>, <<"tex">> \o TGA >>,
           << RootDir, <<"a">>, <<"tex", ".", "tex">> >> }

EmptyDoc == Text(<<>>)

\* the subsets of S with at most k elements
RECURSIVE SubsetsUpTo(_, _)
SubsetsUpTo(S, k) ==
    IF k = 0 THEN {{}}
    ELSE LET smaller == SubsetsUpTo(S, k - 1)
         IN  smaller \cup { x \cup {e} : x \in smaller, e \in S }

Disks == { [f \in fs |-> EmptyDoc] : fs \in SubsetsUpTo(CandidateFiles, MaxFiles) }

NoRequest == [tag |-> "None"]

NoCall == [tag |-> "None"]

InitResolver ==
    /\ disk \in Disks
    /\ properties = <<>>
    /\ stack = <<>>
    /\ status = "idle"
    /\ error = None
    /\ eye_data = Str(<<>>)
    /\ builds = 0
    /\ last = None
    /\ resolved = NoRequest
    /\ log = <<>>
    /\ call = NoCall

\* one call r.resolveResourcePath(resType, name); `paths` is the local list
\* of search roots the call builds (empty for a name containing "/")
Resolve(resType, name) ==
    /\ resolved = NoRequest
    /\ resolved' = [tag |-> "Request", resType |-> resType, name |-> name,
                    paths |-> IF Contains(name, "/") THEN <<>> ELSE SearchRoots(resType, name),
                    result |-> resolveResourcePath(resType, name)]
    /\ UNCHANGED <<disk, properties, stack, status, error, eye_data, builds, last, log, call>>

\* the caller takes the result; the resolver keeps nothing between calls
ResolveReturn ==
    /\ resolved # NoRequest
    /\ resolved' = NoRequest
    /\ UNCHANGED <<disk, properties, stack, status, error, eye_data, builds, last, log, call>>

NextResolver ==
    \/ \E resType \in ResourceType, name \in QueryNames : Resolve(resType, name)
    \/ ResolveReturn

SpecResolver == InitResolver /\ [][NextResolver]_vars

(***************************************************************************)
(* setup_materials and PropertyFile.build                                  *)
(***************************************************************************)
MaxBuilds == 2

RecursionLimit == 5

MatFoo == <<"Foo">>

MatBar == <<"Bar">>

MatEye == <<"x", "_", "EyeFakeHighLight">>

\* the names of bpy.data.materials
Materials == {MatFoo, MatBar, MatEye}

Quoted(typeName, name) == Str(<<typeName, "'">> \o name \o <<"'">>)

ParentValues == { Quoted("Base", MatBar), Quoted("Material3", MatBar),
                  Quoted("MaterialInstanceConstant", MatFoo), Quoted("Material3", <<"Baz">>) }

Param(name, value) == [ParameterName |-> <<name>>, ParameterValue |-> Str(value)]

ParamOrder == << Param("Metallic", <<"0", ".", "5">>), Param("Metallic", <<"0", ".", "1">>),
                 Param("IoR", <<"1", ".", "5">>), Param("Iris UV Radius", <<"0", ".", "1">>) >>

\* the records of ParamOrder at the positions of S, in order
RECURSIVE Pick(_, _)
Pick(S, i) == IF i > Len(ParamOrder) THEN <<>>
              ELSE (IF i \in S THEN <<ParamOrder[i]>> ELSE <<>>) \o Pick(S, i + 1)

ParamLists == { Pick(S, 1) : S \in SUBSET (1..Len(ParamOrder)) }

Item(key, value) == [key |-> key, value |-> value]

ScalarItem(params) == Item(<<"Scalar", "ParameterValues">>, [tag |-> "list", items |-> params])

Docs == { Text(<<ScalarItem(ps)>>) : ps \in ParamLists }
        \cup { Text(<<Item(<<"Parent">>, pv), ScalarItem(ps)>>) : pv \in ParentValues, ps \in ParamLists }

FooFile == FileAt(CMN_MATERIAL_ROOT, MatFoo \o PROPS_JSON)

BarFile == FileAt(CMN_MATERIAL_ROOT, MatBar \o PROPS_JSON)

Init ==
    /\ disk \in [{FooFile, BarFile} -> Docs]
    /\ properties = <<>>
    /\ stack = <<>>
    /\ status = "idle"
    /\ error = None
    /\ eye_data = Str(<<>>)
    /\ builds = 0
    /\ last = None
    /\ resolved = NoRequest
    /\ log = <<>>
    /\ call = NoCall

\* an entry of the record of a build(): a file read, the start of a parse()
\* or the end of a mergeWithParents(), with the text concerned
Event(op, contents) == [op |-> op, contents |-> contents]

\* line 151: the property set seen through a PropertyFile object is the
\* dict bound to the class, which __init__ (lines 154-157) does not replace
PropertiesOf(file) == properties

\* a PropertyFile whose build() goes to mergeWithParents without parse()
NewFile_Unparsed(contents) == [contents |-> contents, parent |-> None, pc |-> "merge"]

\* lines 154-157: a new PropertyFile, about to run build()
NewFile(contents) == [contents |-> contents, parent |-> None, pc |-> "parse"]

Top == stack[Len(stack)]

SetTop(f) == [stack EXCEPT ![Len(stack)] = f]

Fail(exc) ==
    /\ status' = "error"
    /\ error' = exc
    /\ UNCHANGED <<stack, eye_data, builds, last>>

\* build() of the top file returns, the dict holding props; when it is the
\* file of setup_materials, lines 513-514 follow
ReturnFromBuild(props) ==
    IF Len(stack) = 1
    THEN /\ stack' = <<>>
         /\ status' = "idle"
         /\ builds' = builds + 1
         /\ eye_data' = IF <<"Iris UV Radius">> \in DOMAIN props THEN last.data ELSE eye_data
         /\ UNCHANGED <<error, last>>
    ELSE /\ stack' = SubSeq(stack, 1, Len(stack) - 1)
         /\ UNCHANGED <<status, error, eye_data, builds, last>>

\* lines 505-507: data is the text the iteration settled on
StartWith(name, data) ==
    IF data.tag = "text"
    THEN /\ stack' = <<NewFile(data)>>
         /\ status' = "building"
         /\ last' = [tag |-> "build", name |-> name, data |-> data]
         /\ log' = <<>>
         /\ UNCHANGED builds
    ELSE /\ builds' = builds + 1
         /\ UNCHANGED <<stack, status, last, log>>

\* lines 495-507: one iteration of the loop over the materials, up to the
\* call p.build()
StartMaterial(name) ==
    /\ status = "idle"
    /\ builds < MaxBuilds
    /\ StartWith(name, IF EndsWith(name, <<"EyeFakeHighLight">>) THEN eye_data
                       ELSE readResource("CHARA_MAT", name))
    /\ UNCHANGED <<disk, properties, error, eye_data, resolved, call>>

\* parse() has ended with outcome r
Parsed(r) ==
    /\ properties' = r.properties
    /\ IF r.exc # None THEN Fail(r.exc)
       ELSE /\ stack' = SetTop([Top EXCEPT !.parent = r.parent, !.pc = "merge"])
            /\ UNCHANGED <<status, error, eye_data, builds, last>>

\* line 211: self.parse(); self.properties is the dict of the class
Parse ==
    /\ status = "building"
    /\ Top.pc = "parse"
    /\ \E r \in {parse(Top.contents, properties, Top.parent)} : Parsed(r)
    /\ log' = Append(log, Event("parse", Top.contents))
    /\ UNCHANGED <<disk, resolved, call>>

\* lines 226-228: readResource has returned read
BuildParent(read) ==
    /\ log' = Append(log, Event("read", read))
    /\ IF read.tag = "raise" THEN Fail(read)
       ELSE IF Len(stack) >= RecursionLimit THEN Fail(Raise("RecursionError"))
       ELSE /\ stack' = SetTop([Top EXCEPT !.pc = "copy"]) \o <<NewFile(read)>>
            /\ UNCHANGED <<status, error, eye_data, builds, last>>

\* lines 225-228: the parent file is read, constructed and its build() called
MergeCall ==
    /\ status = "building"
    /\ Top.pc = "merge"
    /\ Top.parent # None
    /\ \E read \in {readResource(Top.parent.propertyType, Top.parent.value.s)} :
          BuildParent(read)
    /\ UNCHANGED <<disk, properties, resolved, call>>

\* line 225: no parent reference, mergeWithParents and build() return
MergeReturn ==
    /\ status = "building"
    /\ Top.pc = "merge"
    /\ Top.parent = None
    /\ ReturnFromBuild(properties)
    /\ log' = Append(log, Event("merged", Top.contents))
    /\ UNCHANGED <<disk, properties, resolved, call>>

\* lines 230-235: parent.build() has returned; parent.properties and
\* self.properties are both the dict of the class
MergeCopy ==
    /\ status = "building"
    /\ Top.pc = "copy"
    /\ properties' = MergeProperties(properties, properties)
    /\ ReturnFromBuild(properties')
    /\ log' = Append(log, Event("merged", Top.contents))
    /\ UNCHANGED <<disk, resolved, call>>

Next ==
    \/ \E name \in Materials : StartMaterial(name)
    \/ Parse
    \/ MergeCall
    \/ MergeReturn
    \/ MergeCopy

Spec == Init /\ [][Next]_vars

(***************************************************************************)
(* Properties of build()                                                   *)
(***************************************************************************)
MaxParentDepth == 3

\* the properties a file declares itself, and its parent reference
OwnProperties(data) == parse(data, <<>>, None).properties

OwnParent(data) == parse(data, <<>>, None).parent

\* the text of the file the parent reference of a file names
ParentData(data) ==
    IF OwnParent(data) = None THEN None
    ELSE readResource(OwnParent(data).propertyType, OwnParent(data).value.s)

\* the texts of the first k files of the ancestor chain of a file
RECURSIVE Ancestors(_, _)
Ancestors(data, k) ==
    IF k = 0 \/ ParentData(data).tag # "text" THEN {}
    ELSE {ParentData(data)} \cup Ancestors(ParentData(data), k - 1)

AncestorChain(data) == Ancestors(data, Cardinality(DOMAIN disk))

\* build() of the file of the last loop iteration has returned
Built == status = "idle" /\ last.tag = "build"

Decimal(mant, exp) == Property([tag |-> "float", mant |-> mant, exp |-> exp], "FLOAT")

\* C1: after build() of a file, every property name the file declares and
\* some file of its ancestor chain declares too holds the value the file
\* itself declares.
C1_OverrideLaw ==
    Built =>
        \A a \in AncestorChain(last.data) :
            \A n \in DOMAIN OwnProperties(last.data) \cap DOMAIN OwnProperties(a) :
                n \in DOMAIN properties /\ properties[n] = OwnProperties(last.data)[n]

FooScenario ==
    Text(<<Item(<<"Parent">>, Quoted("Base", MatBar)),
           ScalarItem(<<Param("Metallic", <<"0", ".", "5">>)>>)>>)

BarScenario ==
    Text(<<ScalarItem(<<Param("Metallic", <<"0", ".", "1">>), Param("IoR", <<"1", ".", "5">>)>>)>>)

\* C2: building the file with Parent "Base'Bar'" and Metallic=0.5, Bar.props.json
\* under the character-material root declaring Metallic=0.1 and IoR=1.5,
\* completes and yields exactly {Metallic: 0.5 (FLOAT), IoR: 1.5 (FLOAT)}.
C2_EndToEnd ==
    (last.tag = "build" /\ last.data = FooScenario /\ disk[BarFile] = BarScenario) =>
        /\ status # "error"
        /\ status = "idle" =>
             properties = (<<"Metallic">> :> Decimal(5, 1)) @@ (<<"IoR">> :> Decimal(15, 1))

\* some file is being built inside its own build()
CyclicChain ==
    \E i, j \in 1..Len(stack) : i < j /\ stack[i].contents = stack[j].contents

\* C3: the nesting of build() calls stays within the configured maximum
\* depth, and a build() on a cyclic parent chain that fails, fails with a
\* cycle-detected error.
C3_CycleSafety ==
    /\ Len(stack) <= MaxParentDepth
    /\ (CyclicChain /\ status = "error") => error = Raise("CycleDetected")

\* a file names a parent that the resolver does not find
MissingParent(data) == OwnParent(data) # None /\ ParentData(data) = None

\* C4: build() of a file whose parent reference cannot be resolved does not
\* fail, and leaves exactly the properties the file declares itself.
C4_MissingParentTolerance ==
    (last.tag = "build" /\ MissingParent(last.data)) =>
        /\ status # "error"
        /\ status = "idle" => properties = OwnProperties(last.data)

\* C5: the property set obtained for a file holds no property that neither
\* the file nor a file of its ancestor chain declares, whatever was built
\* before it.
C5_Independence ==
    Built =>
        DOMAIN properties \subseteq
            DOMAIN OwnProperties(last.data)
            \cup UNION { DOMAIN OwnProperties(a) : a \in AncestorChain(last.data) }

\* C6: building a child whose parent (itself without parent) shares no key
\* with it yields |child| + |parent| entries; when the parent declares exactly
\* the keys of the child it yields the child's entries with the child's values.
C6_MergeSizeLaw ==
    (Built /\ ParentData(last.data).tag = "text") =>
        LET child == OwnProperties(last.data)
            parent == OwnProperties(ParentData(last.data))
        IN  OwnParent(ParentData(last.data)) = None =>
              /\ DOMAIN child \cap DOMAIN parent = {} =>
                    Cardinality(DOMAIN properties) = Cardinality(DOMAIN child) + Cardinality(DOMAIN parent)
              /\ DOMAIN child = DOMAIN parent => properties = child

(***************************************************************************)
(* Properties of the resolver                                              *)
(***************************************************************************)
Requested(resType, name) ==
    resolved # NoRequest /\ resolved.resType = resType /\ resolved.name = name

\* the character number each requested name carries after "_R", when the
\* name has the form letters "_R" digits "_" alphanumerics
NamedCharacter == (NameR017 :> 17) @@ (NameR9 :> 9) @@ (NameR002 :> 2)

DlcCharacters == {60, 30, 17, 28, 61, 22, 9}

DlcOf(c) == CASE c = 60 -> 1 [] c = 30 -> 4 [] c = 17 -> 6 [] c = 28 -> 7
              [] c = 61 -> 9 [] c = 22 -> 11 [] c = 9 -> 13

TwoDigits(n) == <<DigitChar(n \div 10), DigitChar(n % 10)>>

ThreeDigits(n) == <<DigitChar(n \div 100), DigitChar((n \div 10) % 10), DigitChar(n % 10)>>

DlcDir(c) == << <<"DLC">>, TwoDigits(DlcOf(c)), <<"Chara">>, ThreeDigits(c), <<"Material">> >>

PlainDir(c) == << <<"Chara">>, ThreeDigits(c), <<"Material">> >>

OnDisk(dir, fileName) == (basePath \o dir \o <<fileName>>) \in DOMAIN disk

InCommonRoots(n) ==
    OnDisk(COMMON_ROOT, n \o PROPS_JSON) \/ OnDisk(CMN_MATERIAL_ROOT, n \o PROPS_JSON)

\* C7 as stated: for a bare character-material name whose character is in
\* the DLC table, when no common root holds the file, the result is the file
\* under the DLC root if it exists, else the file under the plain
\* per-character root if that exists.
C7_DlcAndPlainTried ==
    \A n \in DOMAIN NamedCharacter :
        (Requested("CHARA_MAT", n) /\ NamedCharacter[n] \in DlcCharacters /\ ~InCommonRoots(n)) =>
            LET c == NamedCharacter[n]
            IN  resolved.result =
                  IF OnDisk(DlcDir(c), n \o PROPS_JSON)
                  THEN ResPath(basePath \o DlcDir(c) \o <<n \o PROPS_JSON>>)
                  ELSE IF OnDisk(PlainDir(c), n \o PROPS_JSON)
                       THEN ResPath(basePath \o PlainDir(c) \o <<n \o PROPS_JSON>>)
                       ELSE None

\* C7 amended: for a bare character-material name whose character is in the
\* DLC table, only the DLC root is tried after the common roots: when no
\* common root holds the file the result is the file under the DLC root if it
\* exists and nothing otherwise, whether or not the plain per-character root
\* holds the file.
C7_DlcRootOnly ==
    \A n \in DOMAIN NamedCharacter :
        (Requested("CHARA_MAT", n) /\ NamedCharacter[n] \in DlcCharacters /\ ~InCommonRoots(n)) =>
            LET c == NamedCharacter[n]
            IN  resolved.result =
                  IF OnDisk(DlcDir(c), n \o PROPS_JSON)
                  THEN ResPath(basePath \o DlcDir(c) \o <<n \o PROPS_JSON>>)
                  ELSE None

C7_Witness ==
    /\ Requested("CHARA_MAT", NameR017)
    /\ ~InCommonRoots(NameR017)
    /\ ~OnDisk(DlcDir(17), NameR017 \o PROPS_JSON)
    /\ OnDisk(PlainDir(17), NameR017 \o PROPS_JSON)
    /\ resolved.result = None

\* the last component of a name containing "/" is stem "." stem
IsStemDotStem(name) ==
    /\ Len(name) >= 4
    /\ name[Len(name) - 3] = "/"
    /\ name[Len(name) - 1] = "."
    /\ name[Len(name)] = name[Len(name) - 2]
    /\ name[Len(name)] \notin {".", "/"}

CanonicalSuffix(resType) == IF resType = "TEXTURE_2D" THEN TGA ELSE PROPS_JSON

\* the file the name denotes: under the base directory, or from the
\* filesystem root when the name starts with "/"
Located(name) == IF name[1] = "/" THEN <<RootDir>> \o PathParts(name)
                 ELSE basePath \o PathParts(name)

\* C8 as stated: for a name containing "/" whose stem equals its extension
\* the canonical suffix of the kind is put in place before the existence
\* test, and resolvePath("a/b/tex", TEXTURE_2D) returns base/a/b/tex.tga
\* when that file exists.
C8_StemEqualsExtension ==
    /\ \A n \in QualifiedNames, t \in {"TEXTURE_2D", "CHARA_MAT"} :
         (Requested(t, n) /\ IsStemDotStem(n)) =>
            LET f == Located(SubSeq(n, 1, Len(n) - 2) \o CanonicalSuffix(t))
            IN  resolved.result = IF f \in DOMAIN disk THEN ResPath(f) ELSE None
    /\ (Requested("TEXTURE_2D", QualTex) /\ (basePath \o << <<"a">>, <<"b">>, <<"tex">> \o TGA >>) \in DOMAIN disk) =>
            resolved.result = ResPath(basePath \o << <<"a">>, <<"b">>, <<"tex">> \o TGA >>)

\* C8 amended: for a name containing "/" whose last component is stem "."
\* stem (the extension without its dot equals the stem), the extension is
\* replaced by the canonical suffix of the kind (.tga for 2D-texture,
\* .props.json for character-material) before the existence test; a name
\* without extension is tested as it is, so resolvePath("a/b/tex.tex",
\* TEXTURE_2D) returns base/a/b/tex.tga when that file exists, and
\* resolvePath("a/b/tex", TEXTURE_2D) returns base/a/b/tex when that file
\* exists and nothing otherwise.
C8_StemDotStemReplaced ==
    /\ \A n \in QualifiedNames, t \in {"TEXTURE_2D", "CHARA_MAT"} :
         (Requested(t, n) /\ IsStemDotStem(n)) =>
            LET f == Located(SubSeq(n, 1, Len(n) - 2) \o CanonicalSuffix(t))
            IN  resolved.result = IF f \in DOMAIN disk THEN ResPath(f) ELSE None
    /\ Requested("TEXTURE_2D", QualTex) =>
            LET f == basePath \o << <<"a">>, <<"b">>, <<"tex">> >>
            IN  resolved.result = IF f \in DOMAIN disk THEN ResPath(f) ELSE None

C8_Witness ==
    /\ Requested("TEXTURE_2D", QualTexTex)
    /\ (basePath \o << <<"a">>, <<"b">>, <<"tex", ".", "tex">> >>) \in DOMAIN disk
    /\ resolved.result = ResPath(basePath \o << <<"a">>, <<"b">>, <<"tex">> \o TGA >>)

\* C9: for a bare character-material name the search roots are the two
\* common roots followed by exactly one character-specific root when the
\* name matches the pattern (the DLC root DLC/<dlc, 2 digits>/Chara/<id, 3
\* digits>/Material if and only if the character is a key of the DLC table,
\* otherwise the plain root Chara/<id, 3 digits>/Material), and by none when
\* the name does not match.
C9_CharacterRoot ==
    \A n \in BareNames :
        Requested("CHARA_MAT", n) =>
            resolved.paths = <<COMMON_ROOT, CMN_MATERIAL_ROOT>> \o
                (IF n \in DOMAIN NamedCharacter
                 THEN IF NamedCharacter[n] \in DlcCharacters
                      THEN <<DlcDir(NamedCharacter[n])>>
                      ELSE <<PlainDir(NamedCharacter[n])>>
                 ELSE <<>>)

C9_Witness ==
    /\ Requested("CHARA_MAT", NameR9)
    /\ Len(resolved.paths) = 3
    /\ resolved.paths[3] = << <<"DLC">>, <<"1", "3">>, <<"Chara">>, <<"0", "0", "9">>, <<"Material">> >>
    /\ resolved.result = ResPath(basePath \o resolved.paths[3] \o <<NameR9 \o PROPS_JSON>>)

\* C10: for a bare name of kind character-material or 2D-texture the roots
\* are tried in the order common-resource root, the kind's common root, the
\* character-specific root; the result is the file (root / name + canonical
\* extension) under the first root where it exists, it exists on disk, and
\* the result is nothing when the file exists under no root.
C10_CandidateOrder ==
    \A n \in BareNames, t \in {"CHARA_MAT", "TEXTURE_2D"} :
        Requested(t, n) =>
            LET roots == resolved.paths
                file(i) == basePath \o roots[i] \o <<n \o CanonicalSuffix(t)>>
            IN  /\ Len(roots) >= 2
                /\ roots[1] = COMMON_ROOT
                /\ roots[2] = (IF t = "CHARA_MAT" THEN CMN_MATERIAL_ROOT ELSE CMN_TEXTURE_ROOT)
                /\ resolved.result # None =>
                     /\ resolved.result.tag = "Path"
                     /\ resolved.result.parts \in DOMAIN disk
                     /\ \E i \in 1..Len(roots) :
                          /\ resolved.result.parts = file(i)
                          /\ \A j \in 1..(i - 1) : file(j) \notin DOMAIN disk
                /\ resolved.result = None => \A i \in 1..Len(roots) : file(i) \notin DOMAIN disk

C10_Witness ==
    /\ Requested("CHARA_MAT", NameR017)
    /\ OnDisk(CMN_MATERIAL_ROOT, NameR017 \o PROPS_JSON)
    /\ OnDisk(DlcDir(17), NameR017 \o PROPS_JSON)
    /\ resolved.result = ResPath(basePath \o CMN_MATERIAL_ROOT \o <<NameR017 \o PROPS_JSON>>)

\* the kinds the resolver has no branch for
UnsupportedKinds == ResourceType \ {"CHARA_MAT", "TEXTURE_2D"}

\* a file of the disk, a directory holding one, or the filesystem root
FileOrDirectory(f) ==
    \/ f = <<RootDir>>
    \/ \E g \in DOMAIN disk : \E k \in 1..Len(g) : SubSeq(g, 1, k) = f

\* C11 as stated: for every kind other than character-material and
\* 2D-texture the resolver returns nothing for every name, bare or
\* containing a separator, whatever files exist on disk.
C11_UnsupportedResolveToNothing ==
    \A t \in UnsupportedKinds, n \in QueryNames :
        Requested(t, n) => resolved.result = None

\* C11 amended: for every kind other than character-material and 2D-texture
\* the resolver returns nothing for every bare name, whatever files exist
\* on disk; for a name containing a separator it returns the joined path,
\* with no suffix put in place, when that path exists on disk and nothing
\* when it does not.
C11_UnsupportedBareToNothing ==
    \A t \in UnsupportedKinds :
        /\ \A n \in BareNames : Requested(t, n) => resolved.result = None
        /\ \A n \in QualifiedNames :
              Requested(t, n) =>
                  resolved.result = IF FileOrDirectory(Located(n))
                                    THEN ResPath(Located(n)) ELSE None

C11_Witness ==
    /\ Requested("UNKNOWN", NameTex)
    /\ OnDisk(COMMON_ROOT, NameTex \o TGA)
    /\ OnDisk(CMN_TEXTURE_ROOT, NameTex \o TGA)
    /\ resolved.result = None

\* C12: a parse() call on one PropertyFile changes only that object's
\* property set and parent reference; the property set and the parent
\* reference of every other PropertyFile object (the child's, while its
\* parent file is parsed during mergeWithParents) are left unchanged.
C12_ParseIsLocal ==
    [][(status = "building" /\ Top.pc = "parse") =>
          \A i \in 1..(Len(stack) - 1) :
              /\ PropertiesOf(stack[i])' = PropertiesOf(stack[i])
              /\ status' = "building" => stack'[i].parent = stack[i].parent]_vars

\* ---- chains of three files ----

BazFile == FileAt(CMN_MATERIAL_ROOT, <<"Baz">> \o PROPS_JSON)

ChainParents == { Quoted("Material3", MatBar), Quoted("MaterialInstanceConstant", MatFoo),
                  Quoted("Material3", <<"Baz">>), Quoted("Base", MatBar) }

\* the documents with the given parameter lists, with and without a parent
ChainDocs(paramLists) ==
    { Text(<<ScalarItem(ps)>>) : ps \in paramLists }
    \cup { Text(<<Item(<<"Parent">>, pv), ScalarItem(ps)>>) :
              pv \in ChainParents, ps \in paramLists }

\* three files of different texts: Bar and Baz declare two values of one
\* parameter, Foo declares another parameter or none
ChainDisks ==
    { (FooFile :> foo) @@ (BarFile :> bar) @@ (BazFile :> baz) :
        foo \in ChainDocs({<<>>, <<ParamOrder[3]>>}),
        bar \in ChainDocs({<<ParamOrder[1]>>}),
        baz \in ChainDocs({<<ParamOrder[2]>>}) }

\* lines 459-462: setup_materials starts over a directory of three files
InitChain ==
    /\ disk \in ChainDisks
    /\ properties = <<>>
    /\ stack = <<>>
    /\ status = "idle"
    /\ error = None
    /\ eye_data = Str(<<>>)
    /\ builds = 0
    /\ last = None
    /\ resolved = NoRequest
    /\ log = <<>>
    /\ call = NoCall

SpecChain == InitChain /\ [][Next]_vars

\* the interpreter runs the loop of setup_materials and every build() it
\* calls to the next statement as long as there is one
SpecChainFair == InitChain /\ [][Next]_vars /\ WF_vars(Next)

\* C13: in a chain C -> P -> G where P and G both declare property p and C
\* does not, after build() of C the value stored under p is P's declared
\* value, not G's.
C13_NearestAncestorWins ==
    Built =>
        LET C == last.data
            P == ParentData(C)
            G == IF P.tag = "text" THEN ParentData(P) ELSE None
        IN  (P.tag = "text" /\ G.tag = "text" /\ OwnParent(G) = None) =>
                \A p \in (DOMAIN OwnProperties(P) \cap DOMAIN OwnProperties(G))
                            \ DOMAIN OwnProperties(C) :
                    /\ p \in DOMAIN properties
                    /\ properties[p] = OwnProperties(P)[p]

\* the texts of the files of a parent chain, child first, as far as k parent
\* references are followed; a last entry None marks a reference that gives
\* no text or a chain that goes on after k references
RECURSIVE ParentChain(_, _)
ParentChain(data, k) ==
    IF OwnParent(data) = None THEN <<data>>
    ELSE IF k = 0 \/ ParentData(data).tag # "text" THEN <<data, None>>
    ELSE <<data>> \o ParentChain(ParentData(data), k - 1)

\* a chain over n files that follows n references or more visits a file twice
ChainOfLast == ParentChain(last.data, Cardinality(DOMAIN disk) - 1)

AcyclicBuild ==
    /\ last.tag = "build"
    /\ ChainOfLast[Len(ChainOfLast)] # None

\* what build() of the first file of a chain does: parse the file, read the
\* parent, build() the parent, merge
RECURSIVE BuildRecord(_)
BuildRecord(chain) ==
    IF Len(chain) = 1
    THEN <<Event("parse", chain[1]), Event("merged", chain[1])>>
    ELSE <<Event("parse", chain[1]), Event("read", chain[2])>>
         \o BuildRecord(Tail(chain))
         \o <<Event("merged", chain[1])>>

\* C17: for every finite acyclic parent chain in which each parent
\* reference resolves to readable, well-formed text, build() of the first
\* file terminates; each file of the chain is read and parsed exactly once,
\* in child-to-ancestor order, and the merge step of each file ends only
\* after the build() of its parent has ended.
C17_AcyclicTermination ==
    /\ [](AcyclicBuild =>
            /\ status # "error"
            /\ Len(log) <= Len(BuildRecord(ChainOfLast))
            /\ log = SubSeq(BuildRecord(ChainOfLast), 1, Len(log))
            /\ Built => log = BuildRecord(ChainOfLast))
    /\ ((status = "building" /\ AcyclicBuild) ~> Built)

C17_Witness ==
    /\ Built
    /\ AcyclicBuild
    /\ Len(ChainOfLast) = 3
    /\ Len(log) = 8
    /\ log[1].op = "parse" /\ log[1].contents = last.data
    /\ log[5].op = "parse" /\ log[5].contents = ChainOfLast[3]
    /\ log[8].op = "merged" /\ log[8].contents = last.data

\* ---- parseProperty as a function of its arguments ----

MaxStr == 4

DecodeAtoms == {"MaterialInstanceConstant", "Material3", "Texture2D", "Base", "T_Foo", "'"}

\* the strings of at most MaxStr atoms
DecodeStrings == UNION { [1..n -> DecodeAtoms] : n \in 0..MaxStr }

\* the values a document can hold: strings, a number, null, a list
DecodeValues ==
    { Str(s) : s \in DecodeStrings }
    \cup { None, [tag |-> "float", mant |-> 15, exp |-> 1],
           [tag |-> "list", items |-> <<Str(<<"T_Foo", "'">>)>>] }

\* line 214: the default of the parameter typeHint
DefaultTypeHint == "UNKNOWN"

InitDecode ==
    /\ disk = <<>>
    /\ properties = <<>>
    /\ stack = <<>>
    /\ status = "idle"
    /\ error = None
    /\ eye_data = Str(<<>>)
    /\ builds = 0
    /\ last = None
    /\ resolved = NoRequest
    /\ log = <<>>
    /\ call = NoCall

\* one call parseProperty(value, typeHint)
Decode(value, typeHint) ==
    /\ call = NoCall
    /\ call' = [tag |-> "parseProperty", value |-> value, hinted |-> TRUE,
                typeHint |-> typeHint, result |-> parseProperty(value, typeHint)]
    /\ UNCHANGED <<disk, properties, stack, status, error, eye_data, builds, last, resolved, log>>

\* one call parseProperty(value)
DecodeDefault(value) ==
    /\ call = NoCall
    /\ call' = [tag |-> "parseProperty", value |-> value, hinted |-> FALSE,
                typeHint |-> DefaultTypeHint, result |-> parseProperty(value, DefaultTypeHint)]
    /\ UNCHANGED <<disk, properties, stack, status, error, eye_data, builds, last, resolved, log>>

\* the caller takes the result
CallReturn ==
    /\ call # NoCall
    /\ call' = NoCall
    /\ UNCHANGED <<disk, properties, stack, status, error, eye_data, builds, last, resolved, log>>

NextDecode ==
    \/ /\ call = NoCall
       /\ \E value \in DecodeValues, typeHint \in ResourceType : Decode(value, typeHint)
    \/ /\ call = NoCall
       /\ \E value \in DecodeValues : DecodeDefault(value)
    \/ CallReturn

SpecDecode == InitDecode /\ [][NextDecode]_vars

Decoded == call # NoCall /\ call.tag = "parseProperty"

QuoteCount(s) == Cardinality({i \in 1..Len(s) : s[i] = "'"})

EndsInQuote(value) == value.tag = "str" /\ Len(value.s) > 0 /\ value.s[Len(value.s)] = "'"

\* the kind the table gives for a type name
KindOf(typeName) ==
    CASE typeName \in {<<"MaterialInstanceConstant">>, <<"Material3">>} -> "CHARA_MAT"
      [] typeName = <<"Texture2D">> -> "TEXTURE_2D"
      [] OTHER -> "UNKNOWN"

\* the result is the property of kind KindOf(type name) whose value is the
\* text between the quotes, for a string of the form type name, quote,
\* text, quote
DecodedAsTyped ==
    \E i \in 1..(Len(call.value.s) - 1) :
        /\ call.value.s[i] = "'"
        /\ \A j \in 1..(Len(call.value.s) - 1) : j # i => call.value.s[j] # "'"
        /\ call.result = Property(Str(SubSeq(call.value.s, i + 1, Len(call.value.s) - 1)),
                                  KindOf(SubSeq(call.value.s, 1, i - 1)))

ReturnedUnchanged ==
    /\ call.result = Property(call.value, call.typeHint)
    /\ ~call.hinted => call.result.propertyType = "UNKNOWN"

\* C14 as stated: for every string value that ends in a quote character,
\* parseProperty splits it on the quote into type name, value and trailing
\* empty part and returns a property whose kind is the table mapping of the
\* type name and whose value is the text between the quotes; every value not
\* ending in a quote is returned unchanged with the caller's type hint,
\* unknown by default.
C14_TypedStringDecoding ==
    Decoded =>
        IF EndsInQuote(call.value) THEN DecodedAsTyped ELSE ReturnedUnchanged

\* C14 amended: for every string value that ends in a quote character and
\* holds exactly two quote characters, parseProperty returns a property
\* whose kind is the table mapping of the text before the first quote
\* (MaterialInstanceConstant or Material3 -> character-material, Texture2D
\* -> 2D-texture, anything else -> unknown) and whose value is the text
\* between the quotes; for a string that ends in a quote and holds one quote
\* or more than two it raises ValueError; every value not ending in a quote
\* is returned unchanged with the caller's type hint, unknown by default.
C14_TwoQuoteDecoding ==
    Decoded =>
        IF EndsInQuote(call.value)
        THEN IF QuoteCount(call.value.s) = 2 THEN DecodedAsTyped
             ELSE call.result = Raise("ValueError")
        ELSE ReturnedUnchanged

C14_Witness ==
    /\ Decoded
    /\ call.value = Str(<<"Material3", "'", "T_Foo", "'">>)
    /\ call.typeHint = "FLOAT"
    /\ call.result = Property(Str(<<"T_Foo">>), "CHARA_MAT")

\* ---- parse() as a function of the document and of the dict it writes ----

MaxItems == 3

Number(mant, exp) == [tag |-> "float", mant |-> mant, exp |-> exp]

Records(params) == [tag |-> "list", items |-> params]

SentinelValue == Str(<<"{}">>)

\* the items a document is made of: a parent, the three value groups with
\* one record each, the three value groups with the sentinel, value groups
\* of other prefixes, a Collected...Parameters key and one more key
ItemPool ==
    << Item(<<"Parent">>, Quoted("Material3", MatBar)),
       ScalarItem(<<ParamOrder[1]>>),
       Item(<<"Texture", "ParameterValues">>,
            Records(<<[ParameterName |-> <<"BaseColor">>,
                       ParameterValue |-> Quoted("Texture2D", <<"T_Foo">>)]>>)),
       Item(<<"Vector", "ParameterValues">>,
            Records(<<[ParameterName |-> <<"Color">>,
                       ParameterValue |-> [R |-> Number(1, 0), G |-> Str(<<"0", ".", "5">>),
                                           B |-> Number(0, 0), A |-> Number(1, 0)]]>>)),
       Item(<<"Scalar", "ParameterValues">>, SentinelValue),
       Item(<<"Texture", "ParameterValues">>, SentinelValue),
       Item(<<"Vector", "ParameterValues">>, SentinelValue),
       Item(<<"Font", "ParameterValues">>, Records(<<ParamOrder[3]>>)),
       Item(<<"ParameterValues">>, Number(7, 0)),
       Item(<<"Foo", "ParameterValues", "Bar", "ParameterValues">>, Records(<<>>)),
       Item(<<"Collected", "Scalar", "Parameters">>, Records(<<ParamOrder[3]>>)),
       Item(<<"Name">>, Str(<<"Foo">>)) >>

\* the documents of n items of the pool, of different keys, in every order
DocsOf(n) ==
    { Text([i \in 1..n |-> ItemPool[f[i]]]) :
        f \in { g \in [1..n -> 1..Len(ItemPool)] :
                  \A i, j \in 1..n : i # j => ItemPool[g[i]].key # ItemPool[g[j]].key } }

ParseDocs == UNION { DocsOf(n) : n \in 0..MaxItems }

\* what the class-level dict holds when parse() starts: nothing, or what
\* files parsed before have left
PriorProperties ==
    { <<>>, (<<"Metallic">> :> Property(Number(1, 1), "FLOAT"))
            @@ (<<"IoR">> :> Property(Number(15, 1), "FLOAT")) }

InitParse ==
    /\ disk = <<>>
    /\ properties = <<>>
    /\ stack = <<>>
    /\ status = "idle"
    /\ error = None
    /\ eye_data = Str(<<>>)
    /\ builds = 0
    /\ last = None
    /\ resolved = NoRequest
    /\ log = <<>>
    /\ call = NoCall

\* one call parse() of a new PropertyFile (parent None, line 152) of the
\* given contents
ParseCall(contents, props) ==
    /\ call = NoCall
    /\ call' = [tag |-> "parse", contents |-> contents, properties |-> props,
                result |-> parse(contents, props, None)]
    /\ UNCHANGED <<disk, properties, stack, status, error, eye_data, builds, last, resolved, log>>

NextParse ==
    \/ /\ call = NoCall
       /\ \E contents \in ParseDocs, props \in PriorProperties : ParseCall(contents, props)
    \/ CallReturn

SpecParse == InitParse /\ [][NextParse]_vars

ParseCalled == call # NoCall /\ call.tag = "parse"

FirstIndex(s, c) == CHOOSE k \in 1..Len(s) : s[k] = c /\ \A j \in 1..(k - 1) : s[j] # c

\* a key that contains "ParameterValues" and whose prefix before it is not
\* Scalar, Texture or Vector
UnknownGroup(item) ==
    /\ Contains(item.key, "ParameterValues")
    /\ SubSeq(item.key, 1, FirstIndex(item.key, "ParameterValues") - 1)
           \notin {<<"Scalar">>, <<"Texture">>, <<"Vector">>}

KnownItem(item) == ~UnknownGroup(item)

\* C15: for every top-level key that contains the substring
\* "ParameterValues" and whose prefix before that substring is not Scalar,
\* Texture or Vector, parse() adds no property, leaves the parent reference
\* unchanged, raises no error and goes on to the remaining keys: the outcome
\* is the outcome for the document without these keys, and there is no
\* error when the document holds nothing but such keys.
C15_UnknownGroupsDiscarded ==
    ParseCalled =>
        /\ call.result = parse(Text(SelectSeq(call.contents.items, KnownItem)),
                               call.properties, None)
        /\ (\A i \in 1..Len(call.contents.items) : UnknownGroup(call.contents.items[i]))
              => call.result = [properties |-> call.properties, parent |-> None, exc |-> None]

\* a value-group key whose value is the sentinel string
SentinelGroup(item) ==
    /\ item.key \in { <<"Scalar", "ParameterValues">>, <<"Texture", "ParameterValues">>,
                       <<"Vector", "ParameterValues">> }
    /\ item.value = Str(<<"{}">>)

ValuedItem(item) == ~SentinelGroup(item)

\* C16: a value-group key (ScalarParameterValues, TextureParameterValues or
\* VectorParameterValues) whose value is the string "{}" contributes zero
\* properties, raises no error and leaves the properties contributed by the
\* other keys of the same document unaffected: the outcome of parse() is the
\* outcome for the document without these keys, and a document of such keys
\* alone leaves the property set as it was and raises no error.
C16_EmptyGroupSentinel ==
    ParseCalled =>
        /\ call.result = parse(Text(SelectSeq(call.contents.items, ValuedItem)),
                               call.properties, None)
        /\ (\A i \in 1..Len(call.contents.items) : SentinelGroup(call.contents.items[i]))
              => call.result = [properties |-> call.properties, parent |-> None, exc |-> None]

C16_Witness ==
    /\ ParseCalled
    /\ call.properties = <<>>
    /\ Len(call.contents.items) = 3
    /\ SentinelGroup(call.contents.items[1])
    /\ call.contents.items[1].key = <<"Scalar", "ParameterValues">>
    /\ call.contents.items[2].key = <<"Texture", "ParameterValues">>
    /\ call.contents.items[3].key = <<"Parent">>
    /\ call.result = [properties |-> (<<"BaseColor">> :> Property(Str(<<"T_Foo">>), "TEXTURE_2D")),
                      parent |-> Property(Str(MatBar), "CHARA_MAT"),
                      exc |-> None]

====
